---- MODULE Spec2Model ----
(***************************************************************************)
(* Model of rwth-lkp-submit (src/main.rs): load the configuration, create  *)
(* a temporary directory, let git emit one patch file per unpushed commit, *)
(* tag the subject line of the first patch and hand the files to           *)
(* git send-email.                                                         *)
(*                                                                         *)
(* Text (file names, file contents, command output) is a sequence of       *)
(* one-character strings, so that starts_with, ends_with, split_once,      *)
(* lines, trim and parse are computed character by character.              *)
(***************************************************************************)
EXTENDS Integers, Sequences, FiniteSets, TLC

(***************************************************************************)
(* Bounds of the model.                                                    *)
(***************************************************************************)
\* largest number of commits ahead of the baseline
MaxCommits == 3

(***************************************************************************)
(* Text helpers (str methods of the Rust standard library).                *)
(***************************************************************************)
LF == "\n"
CR == "\r"

Digits == <<"0", "1", "2", "3", "4", "5", "6", "7", "8", "9">>

IsDigit(c) == \E d \in 1..10 : Digits[d] = c

DigitVal(c) == (CHOOSE d \in 1..10 : Digits[d] = c) - 1

\* Display of an unsigned integer: decimal, no padding
RECURSIVE ToDigits(_)
ToDigits(n) == IF n < 10 THEN <<Digits[n + 1]>>
               ELSE ToDigits(n \div 10) \o <<Digits[(n % 10) + 1]>>

\* value of a non-empty sequence of decimal digits
RECURSIVE FromDigits(_)
FromDigits(s) == IF Len(s) = 0 THEN 0
                 ELSE 10 * FromDigits(SubSeq(s, 1, Len(s) - 1)) + DigitVal(s[Len(s)])

starts_with(s, p) == Len(s) >= Len(p) /\ SubSeq(s, 1, Len(p)) = p

ends_with(s, p) == Len(s) >= Len(p) /\ SubSeq(s, Len(s) - Len(p) + 1, Len(s)) = p

\* index of the first occurrence of character c in s, 0 if there is none
find(s, c) == IF \E i \in 1..Len(s) : s[i] = c
              THEN CHOOSE i \in 1..Len(s) : s[i] = c /\ \A j \in 1..(i - 1) : s[j] # c
              ELSE 0

\* str::split_once with a one-character delimiter
split_once(s, c) ==
    LET i == find(s, c)
    IN  IF i = 0 THEN [some |-> FALSE, part1 |-> <<>>, part2 |-> <<>>]
        ELSE [some |-> TRUE, part1 |-> SubSeq(s, 1, i - 1), part2 |-> SubSeq(s, i + 1, Len(s))]

\* str::lines: lines end at "\n" or "\r\n", the final line ending is optional
RECURSIVE lines(_)
lines(text) ==
    IF Len(text) = 0 THEN <<>>
    ELSE LET i == find(text, LF)
         IN  IF i = 0 THEN <<text>>
             ELSE LET l == SubSeq(text, 1, i - 1)
                      stripped == IF Len(l) > 0 /\ l[Len(l)] = CR
                                  THEN SubSeq(l, 1, Len(l) - 1) ELSE l
                  IN  <<stripped>> \o lines(SubSeq(text, i + 1, Len(text)))

IsWhite(c) == c \in {" ", LF, CR, "\t"}

\* str::trim
RECURSIVE trim(_)
trim(s) == IF Len(s) = 0 THEN s
           ELSE IF IsWhite(s[1]) THEN trim(Tail(s))
           ELSE IF IsWhite(s[Len(s)]) THEN trim(SubSeq(s, 1, Len(s) - 1))
           ELSE s

\* str::parse::<usize>: an optional "+" and at least one digit, nothing else
parse(s) ==
    LET body == IF Len(s) > 0 /\ s[1] = "+" THEN Tail(s) ELSE s
    IN  IF Len(body) > 0 /\ \A i \in 1..Len(body) : IsDigit(body[i])
        THEN [ok |-> TRUE, value |-> FromDigits(body)]
        ELSE [ok |-> FALSE, value |-> 0]

\* concatenation of a sequence of texts
RECURSIVE Concat(_)
Concat(ss) == IF Len(ss) = 0 THEN <<>> ELSE Head(ss) \o Concat(Tail(ss))

(***************************************************************************)
(* Configuration (struct Config and its Default implementations).          *)
(***************************************************************************)
DefaultLab == 3
DefaultTask == 2

LabTaskDefault == [lab |-> DefaultLab, task |-> DefaultTask]

MailConfigDefault == [to |-> "lkp-maintainers@os.rwth-aachen.de", suppress_cc |-> TRUE]

GitConfigDefault == [root_commit |-> "v6.5.7"]

ConfigDefault == [test |-> LabTaskDefault, mail |-> MailConfigDefault, git |-> GitConfigDefault]

\* impl Display for LabTask: "lab{}: task{}:"
LabTaskFmt(lab_task) ==
    <<"l", "a", "b">> \o ToDigits(lab_task.lab) \o <<":", " ", "t", "a", "s", "k">>
        \o ToDigits(lab_task.task) \o <<":">>

\* The fields of the configuration file; every one of them may be absent.
ConfigKeys == {"lab", "task", "to", "suppress_cc", "root_commit"}

\* A configuration file: missing, not parseable, or TOML holding the keys
\* in `present` with the values found in `values`.
AbsentFile == [kind |-> "absent", present |-> {}, values |-> ConfigDefault]

MalformedFile == [kind |-> "malformed", present |-> {}, values |-> ConfigDefault]

\* basic_toml::to_string: every field is written
to_string(config) == [kind |-> "toml", present |-> ConfigKeys, values |-> config]

\* basic_toml::from_str with #[serde(default)]: absent fields take defaults
from_str(file) ==
    LET v == file.values
        pick(k, given, dflt) == IF k \in file.present THEN given ELSE dflt
    IN  [test |-> [lab  |-> pick("lab", v.test.lab, DefaultLab),
                   task |-> pick("task", v.test.task, DefaultTask)],
         mail |-> [to |-> pick("to", v.mail.to, MailConfigDefault.to),
                   suppress_cc |-> pick("suppress_cc", v.mail.suppress_cc,
                                        MailConfigDefault.suppress_cc)],
         git  |-> [root_commit |-> pick("root_commit", v.git.root_commit,
                                        GitConfigDefault.root_commit)]]

\* what a TOML file with no key in it looks like (a file truncated by File::create)
EmptyFile == [kind |-> "toml", present |-> {}, values |-> ConfigDefault]

\* values a user wrote into the configuration file
UserConfig == [test |-> [lab |-> 12, task |-> 0],
               mail |-> [to |-> "me@example.org", suppress_cc |-> FALSE],
               git  |-> [root_commit |-> "v6.6"]]

\* the configuration files a run may find
InitialConfigFiles ==
    {AbsentFile, MalformedFile}
        \cup {[kind |-> "toml", present |-> p, values |-> UserConfig] :
                 p \in {{}, {"lab"}, {"task", "suppress_cc"}, ConfigKeys}}

\* outcomes of the file system operations of write_config
WriteOutcomes == {"ok", "mkdir_failed", "create_failed", "write_failed"}

\* write_config: the file after the call and the error chain (empty on success)
write_config(file, config, outcome) ==
    CASE outcome = "ok" ->
            [ok |-> TRUE, file |-> to_string(config), chain |-> <<>>]
      [] outcome = "mkdir_failed" ->
            [ok |-> FALSE, file |-> file, chain |-> <<"failed to create config dir", "io error">>]
      [] outcome = "create_failed" ->
            [ok |-> FALSE, file |-> file, chain |-> <<"io error">>]
      [] outcome = "write_failed" ->
            [ok |-> FALSE, file |-> EmptyFile, chain |-> <<"failed to write config file", "io error">>]

(***************************************************************************)
(* Process Runner (run_command_, run_command, run_command_stdout).         *)
(***************************************************************************)
\* a git invocation: sub-command, options, commit count, file arguments
Cmd(sub, opts, n, files) == [sub |-> sub, opts |-> opts, n |-> n, files |-> files]

\* what a child process does: whether it could be spawned, its exit status,
\* and what it wrote to its standard output and standard error
Child(spawned, success, stdout, stderr) ==
    [spawned |-> spawned, success |-> success, stdout |-> stdout, stderr |-> stderr]

display_cmd(cmd) == "failed to execute: git " \o cmd.sub

\* run_command_ as it would be if Stdio::inherit() were set for the standard
\* error as well: nothing of it is left in output.stderr
run_command_stderr_inherited(cmd, capture, child) ==
    LET output_stdout == IF capture THEN child.stdout ELSE <<>>
        output_stderr == IF capture THEN child.stderr ELSE ""
    IN  IF ~child.spawned
        THEN [ok |-> FALSE, stdout |-> <<>>, chain |-> <<display_cmd(cmd), "io error">>]
        ELSE IF ~child.success
        THEN [ok |-> FALSE, stdout |-> <<>>, chain |-> <<display_cmd(cmd), output_stderr>>]
        ELSE [ok |-> TRUE, stdout |-> output_stdout, chain |-> <<>>]

\* run_command_ as it would be without the test of output.status.success()
run_command_status_ignored(cmd, capture, child) ==
    LET output_stdout == IF capture THEN child.stdout ELSE <<>>
    IN  IF ~child.spawned
        THEN [ok |-> FALSE, stdout |-> <<>>, chain |-> <<display_cmd(cmd), "io error">>]
        ELSE [ok |-> TRUE, stdout |-> output_stdout, chain |-> <<>>]

\* run_command_: the text returned, or the error chain
run_command_(cmd, capture, child) ==
    LET \* Stdio::inherit(): the child's stdout goes to the terminal, output.stdout is empty
        output_stdout == IF capture THEN child.stdout ELSE <<>>
        \* standard error is always piped by Command::output
        output_stderr == child.stderr
    IN  IF ~child.spawned
        THEN [ok |-> FALSE, stdout |-> <<>>, chain |-> <<display_cmd(cmd), "io error">>]
        ELSE IF ~child.success
        THEN [ok |-> FALSE, stdout |-> <<>>, chain |-> <<display_cmd(cmd), output_stderr>>]
        ELSE [ok |-> TRUE, stdout |-> output_stdout, chain |-> <<>>]

run_command(cmd, child) == run_command_(cmd, FALSE, child)

run_command_stdout(cmd, child) == run_command_(cmd, TRUE, child)

\* texts a failing child leaves on its standard error
StderrTexts == {"", "fatal: unable to send"}

(***************************************************************************)
(* What git writes: file names and file contents of `git format-patch`,    *)
(* and the standard output of `git rev-list --count`.                      *)
(***************************************************************************)
\* the literal the subject line is recognised by
SubjectPrefix ==
    <<"S", "u", "b", "j", "e", "c", "t", ":", " ", "[", "P", "A", "T", "C", "H", " ">>

FirstPatchStart == <<"0", "0", "0", "1", "-">>

PatchExt == <<".", "p", "a", "t", "c", "h">>

\* sequence number of a patch file, zero-padded to 4 digits
Pad4(i) ==
    LET d == ToDigits(i)
    IN  IF Len(d) >= 4 THEN d ELSE [k \in 1..(4 - Len(d)) |-> "0"] \o d

\* format.suffix of the git configuration decides the extension
Suffixes == {PatchExt, <<".", "t", "x", "t">>}

PatchName(suffix, i) == Pad4(i) \o <<"-", "c">> \o suffix

FromLine == <<"F", "r", "o", "m", " ", "a">>

FixBug == <<"F", "i", "x", " ", "b", "u", "g">>

\* "Subject: [PATCH i/n] Fix bug"
NumberedSubject(i, n) ==
    SubjectPrefix \o ToDigits(i) \o <<"/">> \o ToDigits(n) \o <<"]", " ">> \o FixBug

\* "Subject: [PATCH] Fix bug", what git writes for a series of one patch
PlainSubject == <<"S", "u", "b", "j", "e", "c", "t", ":", " ", "[", "P", "A", "T", "C", "H", "]", " ">> \o FixBug

\* a line of the commit message that repeats a subject: "Subject: [PATCH v2] y]z"
QuotedSubject == SubjectPrefix \o <<"v", "2", "]", " ", "y", "]", "z">>

\* a line with the prefix and no closing bracket: "Subject: [PATCH v2"
UnclosedSubject == SubjectPrefix \o <<"v", "2">>

Shapes == {"numbered", "crlf", "noeol", "plain", "quoted", "unclosed"}

PatchLines(shape, i, n) ==
    CASE shape \in {"numbered", "crlf", "noeol"} ->
            <<FromLine, NumberedSubject(i, n), <<>>, <<"x">>>>
      [] shape = "plain" ->
            <<FromLine, PlainSubject, <<>>, <<"x">>>>
      [] shape = "quoted" ->
            <<FromLine, NumberedSubject(i, n), <<>>, QuotedSubject>>
      [] shape = "unclosed" ->
            <<NumberedSubject(i, n), FromLine, UnclosedSubject, <<"x">>>>

\* the text of a patch file: the lines, each with its line ending
PatchText(shape, i, n) ==
    LET ls == PatchLines(shape, i, n)
        eol(k) == IF shape = "crlf" THEN <<CR, LF>>
                  ELSE IF shape = "noeol" /\ k = Len(ls) THEN <<>>
                  ELSE <<LF>>
    IN  Concat([k \in 1..Len(ls) |-> ls[k] \o eol(k)])

\* the directory after `git format-patch -n`: n files, numbered from 0001
FormatPatchFiles(suffix, shape, n) ==
    [name \in {PatchName(suffix, i) : i \in 1..n} |->
        LET i == CHOOSE k \in 1..n : PatchName(suffix, k) = name
        IN  PatchText(shape, i, n)]

\* what `git rev-list --count` may print
CountOutputs ==
    {ToDigits(n) \o <<LF>> : n \in 0..MaxCommits}
        \cup {<<"0", "0", LF>>, <<"+", "2", LF>>, <<" ", "1", CR, LF>>,
              <<"-", "1", LF>>, <<"a", "b", "c", LF>>, <<>>}

\* every child process may fail to start, exit non-zero, or succeed
FailingChildren ==
    {Child(FALSE, FALSE, <<>>, "")} \cup {Child(TRUE, FALSE, <<>>, e) : e \in StderrTexts}

\* the orders in which read_dir may list a set of files
Orders(S) == {o \in [1..Cardinality(S) -> S] : \A a, b \in 1..Cardinality(S) : o[a] = o[b] => a = b}

NoFiles == [name \in {} |-> <<>>]

(***************************************************************************)
(* Subject Annotator, the part of patch_first_mail that is a function.     *)
(***************************************************************************)
\* the closure as it would be without the test of the extension
is_first_patch_any_extension(file) == starts_with(file, FirstPatchStart)

\* the closure of patch_first_mail that recognises the first patch
is_first_patch(file) == starts_with(file, FirstPatchStart) /\ ends_with(file, PatchExt)

\* Iterator::find: the first file of the list that is a first patch, 0 if none
find_first_patch(files) ==
    IF \E k \in 1..Len(files) : is_first_patch(files[k])
    THEN CHOOSE k \in 1..Len(files) :
            is_first_patch(files[k]) /\ \A j \in 1..(k - 1) : ~is_first_patch(files[j])
    ELSE 0

\* as it would be with unwrap_or_default() in place of unwrap()
unwrap_never_panics(line) == FALSE

\* the line split_once(...).unwrap() panics on
unwrap_panics(line) == starts_with(line, SubjectPrefix) /\ ~split_once(line, "]").some

\* what the loop body writes for one line (without the line feed of writeln!)
annotate(line, lab_task) ==
    IF starts_with(line, SubjectPrefix)
    THEN LET sp == split_once(line, "]")
         IN  sp.part1 \o <<"]", " ">> \o LabTaskFmt(lab_task) \o <<" ">> \o sp.part2
    ELSE line

\* the loop as it would be with write! in place of writeln!: no line feed
RECURSIVE write_lines_no_newline(_, _, _, _)
write_lines_no_newline(ls, k, lab_task, fail_at) ==
    IF k > Len(ls) THEN [content |-> <<>>, status |-> "ok"]
    ELSE IF unwrap_panics(ls[k]) THEN [content |-> <<>>, status |-> "panic"]
    ELSE IF k = fail_at THEN [content |-> <<>>, status |-> "io"]
    ELSE LET rest == write_lines_no_newline(ls, k + 1, lab_task, fail_at)
         IN  [content |-> annotate(ls[k], lab_task) \o rest.content,
              status |-> rest.status]

\* The loop over patch.lines() from line k on: what reaches the file and how
\* the loop ends ("ok", "panic" in unwrap, "io" for a failed writeln!).
\* fail_at is the line whose writeln! fails, 0 if none does.
RECURSIVE write_lines(_, _, _, _)
write_lines(ls, k, lab_task, fail_at) ==
    IF k > Len(ls) THEN [content |-> <<>>, status |-> "ok"]
    ELSE IF unwrap_panics(ls[k]) THEN [content |-> <<>>, status |-> "panic"]
    ELSE IF k = fail_at THEN [content |-> <<>>, status |-> "io"]
    ELSE LET rest == write_lines(ls, k + 1, lab_task, fail_at)
         IN  [content |-> annotate(ls[k], lab_task) \o <<LF>> \o rest.content,
              status |-> rest.status]

(***************************************************************************)
(* State.                                                                  *)
(***************************************************************************)
VARIABLES
    pc,           \* the statement of main that runs next, or how the process ended
    config_file,  \* the persisted configuration file
    config,       \* the Config that load_config returned
    tmp_dir,      \* the temporary directory: "none", "exists" or "deleted"
    fs,           \* the files of the temporary directory: name -> text
    count,        \* create_patchs: the parsed output of rev-list
    patch_files,  \* the Vec<PathBuf> returned by create_patchs
    calls,        \* the child processes run so far, with what they did
    printed,      \* the messages of the program on standard output
    written,      \* the patch files the program has opened for writing
    error,        \* the anyhow error chain main returned, outermost first
    error_files,  \* the file list quoted in the error message
    exit_status,  \* the exit status of the process, NotExited while it runs
    trace         \* the functions main has called, in order

vars == <<pc, config_file, config, tmp_dir, fs, count, patch_files, calls, printed,
          written, error, error_files, exit_status, trace>>

NotExited == -1

\* the status of a Rust process whose main returned Ok
OkStatus == 0

\* load_config as it would be with exit(0) after writing the defaults
BootstrapStatusZero == OkStatus

\* exit(1) of load_config after the default configuration was written
BootstrapStatus == 1

\* exit(0) of create_patchs
NoOpStatus == 0

\* the status of a Rust process whose main returned Err
ErrStatus == 1

\* the status of a Rust process whose main thread panicked
PanicStatus == 101

Terminal == {"Done", "Failed", "Bootstrapped", "NoOp", "Panicked"}

Init ==
    /\ pc = "LoadingConfig"
    /\ config_file \in InitialConfigFiles
    /\ config = ConfigDefault
    /\ tmp_dir = "none"
    /\ fs = NoFiles
    /\ count = [ok |-> FALSE, value |-> 0]
    /\ patch_files = <<>>
    /\ calls = <<>>
    /\ printed = <<>>
    /\ written = {}
    /\ error = <<>>
    /\ error_files = <<>>
    /\ exit_status = NotExited
    /\ trace = <<>>

\* Drop of TempDir: the directory and its content are removed
Drop ==
    /\ tmp_dir' = IF tmp_dir = "exists" THEN "deleted" ELSE tmp_dir
    /\ fs' = NoFiles

\* main returns Err(chain): its locals are dropped, the exit status is 1
MainErr(chain) ==
    /\ error' = chain
    /\ exit_status' = ErrStatus
    /\ pc' = "Failed"
    /\ Drop

\* std::process::exit(status): the process ends at once, no destructor runs
Exit(status, how) ==
    /\ exit_status' = status
    /\ pc' = how
    /\ UNCHANGED <<tmp_dir, fs, error>>

\* main goes on with its next statement
Continue(next) ==
    /\ pc' = next
    /\ UNCHANGED <<error, exit_status>>

(***************************************************************************)
(* The statements of main.                                                 *)
(***************************************************************************)
\* let config = load_config().context("failed to load config")?;
LoadConfig ==
    /\ pc = "LoadingConfig"
    /\ trace' = Append(trace, "load_config")
    /\ UNCHANGED <<count, patch_files, calls, written, error_files>>
    /\ \E home_ok \in BOOLEAN, read_ok \in BOOLEAN, outcome \in WriteOutcomes :
        IF ~home_ok
        THEN /\ MainErr(<<"failed to load config", "no valid home directory path">>)
             /\ UNCHANGED <<config_file, config, printed>>
        ELSE IF config_file.kind = "absent"
        THEN LET w == write_config(config_file, ConfigDefault, outcome)
             IN  /\ printed' = printed \o <<"load config from", "config file do not exist yet">>
                 /\ config_file' = w.file
                 /\ config' = config
                 /\ IF w.ok THEN Exit(BootstrapStatus, "Bootstrapped")
                            ELSE MainErr(<<"failed to load config">> \o w.chain)
        ELSE /\ printed' = Append(printed, "load config from")
             /\ IF ~read_ok
                THEN /\ MainErr(<<"failed to load config", "failed to read", "io error">>)
                     /\ UNCHANGED <<config_file, config>>
                ELSE IF config_file.kind = "malformed"
                THEN /\ MainErr(<<"failed to load config", "failed to deserialize config",
                                  "parse error">>)
                     /\ UNCHANGED <<config_file, config>>
                ELSE LET loaded == from_str(config_file)
                         w == write_config(config_file, loaded, outcome)
                     IN  /\ config_file' = w.file
                         /\ IF w.ok
                            THEN /\ config' = loaded
                                 /\ Continue("AcquiringScratch")
                                 /\ UNCHANGED <<tmp_dir, fs>>
                            ELSE /\ config' = config
                                 /\ MainErr(<<"failed to load config">> \o w.chain)

\* let tmp_dir = tempdir()?; create_dir_all(&tmp_dir).with_context(..)?;
AcquireScratch ==
    /\ pc = "AcquiringScratch"
    /\ trace' = Append(trace, "tempdir")
    /\ UNCHANGED <<config_file, config, count, patch_files, calls, printed, written,
                   error_files>>
    /\ \E outcome \in {"ok", "tempdir_failed", "create_dir_failed"} :
        CASE outcome = "ok" ->
                /\ tmp_dir' = "exists"
                /\ fs' = NoFiles
                /\ Continue("GeneratingPatches")
          [] outcome = "tempdir_failed" ->
                MainErr(<<"io error">>)
          [] outcome = "create_dir_failed" ->
                \* the TempDir exists by now and is dropped when main returns
                /\ error' = <<"failed to create dir", "io error">>
                /\ exit_status' = ErrStatus
                /\ pc' = "Failed"
                /\ tmp_dir' = "deleted"
                /\ fs' = NoFiles

\* create_patchs as it would be without the test for a count of zero
nothing_to_submit_never(n) == FALSE

\* if count == 0 { println!("nothing to submit"); exit(0); }
nothing_to_submit(n) == n = 0

\* let patch_files = create_patchs(&tmp_dir, config.git.root_commit)
\*     .context("failed to create patchs")?;
CreatePatchs ==
    /\ pc = "GeneratingPatches"
    /\ trace' = Append(trace, "create_patchs")
    /\ UNCHANGED <<config_file, config, written, error_files>>
    /\ \E child \in FailingChildren \cup {Child(TRUE, TRUE, out, "") : out \in CountOutputs} :
        LET cmd == Cmd("rev-list", <<"--count", config.git.root_commit \o "..HEAD">>, 0, <<>>)
            r == run_command_stdout(cmd, child)
            parsed == parse(trim(r.stdout))
            ran == Append(calls, [cmd |-> cmd, child |-> child])
            said == printed \o <<"create patchs:", "run: git rev-list">>
        IN  IF ~r.ok
            THEN /\ calls' = ran
                 /\ printed' = said
                 /\ MainErr(<<"failed to create patchs">> \o r.chain)
                 /\ UNCHANGED <<count, patch_files>>
            ELSE IF ~parsed.ok
            THEN /\ calls' = ran
                 /\ printed' = Append(said, "stdout of git rev-list")
                 /\ MainErr(<<"failed to create patchs", "is not a number", "parse error">>)
                 /\ UNCHANGED <<count, patch_files>>
            ELSE IF nothing_to_submit(parsed.value)
            THEN /\ calls' = ran
                 /\ printed' = said \o <<"stdout of git rev-list", "nothing to submit">>
                 /\ count' = parsed
                 /\ patch_files' = patch_files
                 /\ Exit(NoOpStatus, "NoOp")
            ELSE \E child2 \in FailingChildren \cup {Child(TRUE, TRUE, <<>>, "")},
                    suffix \in Suffixes, shape \in Shapes, read_ok \in BOOLEAN :
                    LET cmd2 == Cmd("format-patch", <<"--output-directory", "tmp_dir">>,
                                    parsed.value, <<>>)
                        r2 == run_command(cmd2, child2)
                        dir == FormatPatchFiles(suffix, shape, parsed.value)
                    IN  /\ calls' = Append(ran, [cmd |-> cmd2, child |-> child2])
                        /\ printed' = said \o <<"stdout of git rev-list", "run: git format-patch">>
                        /\ count' = parsed
                        /\ IF ~r2.ok
                           THEN /\ MainErr(<<"failed to create patchs",
                                             "failed to generate patch">> \o r2.chain)
                                /\ patch_files' = patch_files
                           ELSE IF ~read_ok
                           THEN /\ MainErr(<<"failed to create patchs", "io error">>)
                                /\ patch_files' = patch_files
                           ELSE \E order \in Orders(DOMAIN dir) :
                                    /\ patch_files' = order
                                    /\ fs' = dir
                                    /\ tmp_dir' = tmp_dir
                                    /\ Continue("AnnotatingSubject")

\* patch_first_mail(&patch_files, config.test)
\*     .context("failed to patch first mail subject")?;
PatchFirstMail ==
    /\ pc = "AnnotatingSubject"
    /\ trace' = Append(trace, "patch_first_mail")
    /\ printed' = Append(printed, "modify first patch subject:")
    /\ UNCHANGED <<config_file, config, count, patch_files, calls>>
    /\ LET k == find_first_patch(patch_files)
       IN  IF k = 0
           THEN /\ MainErr(<<"failed to patch first mail subject",
                             "failed to find first patch file (0001-*.patch)">>)
                /\ error_files' = patch_files
                /\ written' = written
           ELSE LET first_patch == patch_files[k]
                    ls == lines(fs[first_patch])
                IN  \E read_ok \in BOOLEAN, create_ok \in BOOLEAN, fail_at \in 0..Len(ls) :
                        /\ error_files' = error_files
                        /\ IF ~read_ok
                           THEN /\ MainErr(<<"failed to patch first mail subject",
                                             "failed to read", "io error">>)
                                /\ written' = written
                           ELSE IF ~create_ok
                           THEN /\ MainErr(<<"failed to patch first mail subject", "io error">>)
                                /\ written' = written
                           ELSE LET w == write_lines(ls, 1, config.test, fail_at)
                                IN  /\ written' = written \cup {first_patch}
                                    /\ CASE w.status = "ok" ->
                                              /\ fs' = [fs EXCEPT ![first_patch] = w.content]
                                              /\ tmp_dir' = tmp_dir
                                              /\ Continue("Dispatching")
                                         [] w.status = "io" ->
                                              MainErr(<<"failed to patch first mail subject",
                                                        "failed to wirte", "io error">>)
                                         [] w.status = "panic" ->
                                              /\ fs' = [fs EXCEPT ![first_patch] = w.content]
                                              /\ tmp_dir' = tmp_dir
                                              /\ Continue("Panicking")

\* The panic of unwrap() unwinds the stack of main: tmp_dir is dropped and
\* the process ends with the status of a panic.
Unwind ==
    /\ pc = "Panicking"
    /\ pc' = "Panicked"
    /\ exit_status' = PanicStatus
    /\ Drop
    /\ UNCHANGED <<config_file, config, count, patch_files, calls, printed, written, error,
                   error_files, trace>>

\* send_patch(&patch_files, &config.mail).context("failed to send patch per mail")?;
\* println!("submit successful"); Ok(())
SendPatch ==
    /\ pc = "Dispatching"
    /\ trace' = Append(trace, "send_patch")
    /\ UNCHANGED <<config_file, config, count, patch_files, written, error_files>>
    /\ \E child \in FailingChildren \cup {Child(TRUE, TRUE, <<>>, "")} :
        LET cmd == Cmd("send-email",
                       <<"--to", config.mail.to, "--confirm=never">>
                           \o (IF config.mail.suppress_cc THEN <<"--suppress-cc=all">> ELSE <<>>),
                       0, patch_files)
            r == run_command(cmd, child)
        IN  /\ calls' = Append(calls, [cmd |-> cmd, child |-> child])
            /\ IF ~r.ok
               THEN /\ printed' = printed \o <<"send mails:", "run: git send-email">>
                    /\ MainErr(<<"failed to send patch per mail">> \o r.chain)
               ELSE /\ printed' = printed \o <<"send mails:", "run: git send-email",
                                               "submit successful">>
                    /\ pc' = "Done"
                    /\ exit_status' = OkStatus
                    /\ error' = error
                    /\ Drop

Next ==
    \/ LoadConfig
    \/ AcquireScratch
    \/ CreatePatchs
    \/ PatchFirstMail
    \/ Unwind
    \/ SendPatch

Spec == Init /\ [][Next]_vars

(***************************************************************************)
(* Vocabulary of the properties.                                           *)
(***************************************************************************)
Exited == exit_status # NotExited

\* the sub-commands of git run so far
Ran(sub) == \E i \in 1..Len(calls) : calls[i].cmd.sub = sub

Called(fn) == \E i \in 1..Len(trace) : trace[i] = fn

Said(msg) == \E i \in 1..Len(printed) : printed[i] = msg

\* a file name of the form 0001-*.patch
FirstPatchName(f) ==
    /\ Len(f) >= 5
    /\ SubSeq(f, 1, 5) = <<"0", "0", "0", "1", "-">>
    /\ Len(f) >= 6
    /\ SubSeq(f, Len(f) - 5, Len(f)) = <<".", "p", "a", "t", "c", "h">>

\* the pieces of a text that end in a line feed, and the rest after the last
RECURSIVE LFLines(_)
LFLines(text) ==
    IF Len(text) = 0 THEN <<>>
    ELSE IF \E i \in 1..Len(text) : text[i] = LF
    THEN LET i == CHOOSE k \in 1..Len(text) : text[k] = LF /\ \A j \in 1..(k - 1) : text[j] # LF
         IN  <<SubSeq(text, 1, i - 1)>> \o LFLines(SubSeq(text, i + 1, Len(text)))
    ELSE <<text>>

EndsInLF(text) == Len(text) = 0 \/ text[Len(text)] = LF

\* the lines of a text without their line ending (LF or CRLF)
TextLines(text) ==
    LET ls == LFLines(text)
    IN  [i \in 1..Len(ls) |->
            IF Len(ls[i]) > 0 /\ ls[i][Len(ls[i])] = CR /\ (i < Len(ls) \/ EndsInLF(text))
            THEN SubSeq(ls[i], 1, Len(ls[i]) - 1) ELSE ls[i]]

HasPrefix(line) == Len(line) >= 16 /\ SubSeq(line, 1, 16) = SubjectPrefix

AllDigits(t) == Len(t) > 0 /\ \A i \in 1..Len(t) : t[i] \in {Digits[d] : d \in 1..10}

\* a line of the form "Subject: [PATCH k/n] S"
NumberedForm(line) ==
    /\ HasPrefix(line)
    /\ \E b \in 17..Len(line), sl \in 17..Len(line) :
          /\ sl < b
          /\ line[b] = "]"
          /\ \A j \in 17..(b - 1) : line[j] # "]"
          /\ line[sl] = "/"
          /\ AllDigits(SubSeq(line, 17, sl - 1))
          /\ AllDigits(SubSeq(line, sl + 1, b - 1))
          /\ b < Len(line)
          /\ line[b + 1] = " "

\* "Subject: [PATCH k/n] labL: taskT: S" for a line "Subject: [PATCH k/n] S"
Tagged(line, lab, task) ==
    LET b == CHOOSE k \in 17..Len(line) : line[k] = "]" /\ \A j \in 17..(k - 1) : line[j] # "]"
    IN  SubSeq(line, 1, b) \o <<" ", "l", "a", "b">> \o ToDigits(lab)
            \o <<":", " ", "t", "a", "s", "k">> \o ToDigits(task) \o <<":", " ">>
            \o SubSeq(line, b + 2, Len(line))

\* line `a` is line `b` as the annotator leaves it: a line with the prefix has
\* got text inserted behind its first "]", any other line is the same
Rewritten(b, a) ==
    IF HasPrefix(b)
    THEN \E j \in 1..Len(b) :
            /\ b[j] = "]"
            /\ \A k \in 1..(j - 1) : b[k] # "]"
            /\ Len(a) > Len(b)
            /\ SubSeq(a, 1, j) = SubSeq(b, 1, j)
            /\ SubSeq(a, Len(a) - (Len(b) - j) + 1, Len(a)) = SubSeq(b, j + 1, Len(b))
    ELSE a = b

\* rev-list succeeded and its output parses to n
CountReturned(n) ==
    \E i \in 1..Len(calls) :
        /\ calls[i].cmd.sub = "rev-list"
        /\ calls[i].child.spawned
        /\ calls[i].child.success
        /\ parse(trim(calls[i].child.stdout)) = [ok |-> TRUE, value |-> n]

\* create_patchs has returned a patch set
Generated == pc = "AnnotatingSubject" \/ Called("patch_first_mail")

NoFirstPatch == \A k \in 1..Len(patch_files) : ~FirstPatchName(patch_files[k])

\* the order of the calls in main
StageOrder == <<"load_config", "tempdir", "create_patchs", "patch_first_mail", "send_patch">>

\* the step in which patch_first_mail returns Ok
AnnotateStep == pc = "AnnotatingSubject" /\ pc' = "Dispatching"

(***************************************************************************)
(* C1: whenever the process has exited after it acquired the temporary     *)
(* directory, the directory and the files in it are gone.                  *)
(***************************************************************************)
C1_ScratchDeletedOnEveryExit ==
    (Exited /\ tmp_dir # "none") => (tmp_dir = "deleted" /\ fs = NoFiles)

(***************************************************************************)
(* C2: a subject line "Subject: [PATCH k/n] S" of the first patch becomes  *)
(* "Subject: [PATCH k/n] labL: taskT: S", one space on either side of the  *)
(* label; "Subject: [PATCH 1/3] Fix bug" with lab 3, task 2 becomes        *)
(* "Subject: [PATCH 1/3] lab3: task2: Fix bug".                            *)
(***************************************************************************)
C2_Example_Before == SubjectPrefix \o <<"1", "/", "3", "]", " ", "F", "i", "x", " ", "b", "u", "g">>

C2_Example_After ==
    SubjectPrefix \o <<"1", "/", "3", "]", " ", "l", "a", "b", "3", ":", " ", "t", "a", "s", "k",
                       "2", ":", " ", "F", "i", "x", " ", "b", "u", "g">>

C2_SubjectTaggedWithSingleSpaces ==
    [][AnnotateStep =>
        \A f \in DOMAIN fs :
            FirstPatchName(f) =>
                LET before == TextLines(fs[f])
                    after == TextLines(fs'[f])
                IN  \A i \in 1..Len(before) :
                        NumberedForm(before[i]) =>
                            /\ i <= Len(after)
                            /\ after[i] = Tagged(before[i], config.test.lab, config.test.task)
                            /\ (before[i] = C2_Example_Before /\ config.test.lab = 3
                                    /\ config.test.task = 2)
                                  => after[i] = C2_Example_After]_vars

(***************************************************************************)
(* C3: the annotator changes exactly one line of the whole patch set, the  *)
(* subject header of the file numbered 0001; all other lines of that file  *)
(* and all other files stay as they are.                                   *)
(***************************************************************************)
\* the lines of file f that differ between two directories
ChangedLines(f) ==
    LET before == TextLines(fs[f])
        after == TextLines(fs'[f])
    IN  {i \in 1..Len(before) : i > Len(after) \/ after[i] # before[i]}

C3_ExactlyOneLineChanges ==
    [][AnnotateStep =>
        /\ DOMAIN fs' = DOMAIN fs
        /\ \A f \in DOMAIN fs : ~FirstPatchName(f) => fs'[f] = fs[f]
        /\ \E f \in DOMAIN fs :
              /\ FirstPatchName(f)
              /\ Len(TextLines(fs'[f])) = Len(TextLines(fs[f]))
              /\ Cardinality(ChangedLines(f)) = 1
              /\ \A i \in ChangedLines(f) : HasPrefix(TextLines(fs[f])[i])]_vars

\* C3 as amended: the lines that change are the lines of the file 0001-*.patch
\* that begin with "Subject: [PATCH " (none, one or several of them); the other
\* lines keep place and content, every line is written back with one line
\* feed, and the other files are not touched.
C3_PrefixedLinesChange ==
    [][AnnotateStep =>
        /\ DOMAIN fs' = DOMAIN fs
        /\ \A f \in DOMAIN fs : ~FirstPatchName(f) => fs'[f] = fs[f]
        /\ \E f \in DOMAIN fs :
              /\ FirstPatchName(f)
              /\ EndsInLF(fs'[f])
              /\ Len(LFLines(fs'[f])) = Len(TextLines(fs[f]))
              /\ \A i \in 1..Len(TextLines(fs[f])) :
                    LET b == TextLines(fs[f])[i]
                        a == LFLines(fs'[f])[i]
                    IN  Rewritten(b, a)]_vars

\* the annotator has run on a series of several patches whose first file has
\* two lines with the prefix, and both carry the label now
C3_Witness ==
    /\ pc = "Dispatching"
    /\ Len(patch_files) >= 2
    /\ \E f \in DOMAIN fs :
          /\ FirstPatchName(f)
          /\ f \in written
          /\ Cardinality({i \in 1..Len(LFLines(fs[f])) : HasPrefix(LFLines(fs[f])[i])}) = 2

(***************************************************************************)
(* C4: for a count N > 0 create_patchs returns N files, oldest commit      *)
(* first (0001, 0002, ...), and send-email gets them in that order.        *)
(***************************************************************************)
C4_PatchSetOldestFirst ==
    \A n \in 1..(MaxCommits + 1) :
        (CountReturned(n) /\ Generated) =>
            /\ Len(patch_files) = n
            /\ \A i \in 1..Len(patch_files) : SubSeq(patch_files[i], 1, 4) = Pad4(i)
            /\ \A c \in 1..Len(calls) :
                  calls[c].cmd.sub = "send-email" => calls[c].cmd.files = patch_files

(***************************************************************************)
(* C5: a count of 0 ends the run with status 0 after "nothing to submit";  *)
(* format-patch, the annotator and send-email do not run.                  *)
(***************************************************************************)
C5_ZeroCommitsIsNoOp ==
    CountReturned(0) =>
        /\ pc = "NoOp"
        /\ exit_status = 0
        /\ printed[Len(printed)] = "nothing to submit"
        /\ ~Ran("format-patch")
        /\ ~Ran("send-email")
        /\ ~Called("patch_first_mail")
        /\ ~Called("send_patch")
        /\ written = {}

C5_Witness ==
    /\ CountReturned(0)
    /\ pc = "NoOp"
    /\ exit_status = 0
    /\ Len(calls) = 1

(***************************************************************************)
(* C6: without a file named 0001-*.patch in the patch set the run fails    *)
(* with the "failed to find first patch file" error that lists the files,  *)
(* no file is written and send-email is not run.                           *)
(***************************************************************************)
C6_FirstPatchNotFound ==
    (Generated /\ NoFirstPatch) =>
        /\ written = {}
        /\ ~Ran("send-email")
        /\ Called("patch_first_mail") =>
              /\ pc = "Failed"
              /\ Exited
              /\ exit_status # 0
              /\ error = <<"failed to patch first mail subject",
                           "failed to find first patch file (0001-*.patch)">>
              /\ error_files = patch_files

C6_Witness ==
    /\ Called("patch_first_mail")
    /\ NoFirstPatch
    /\ Len(patch_files) >= 2
    /\ pc = "Failed"
    /\ error_files = patch_files

(***************************************************************************)
(* C7: on a first run (no configuration file) the defaults are persisted   *)
(* and the run ends with a non-zero status different from the status of a  *)
(* failed stage, with no temporary directory, no patch and no mail; status *)
(* 0 is that of a completed dispatch or of the zero-commit exit only.      *)
(***************************************************************************)
FirstRun == Said("config file do not exist yet")

DefaultsPersisted ==
    /\ config_file.kind = "toml"
    /\ config_file.present = ConfigKeys
    /\ config_file.values = [test |-> [lab |-> 3, task |-> 2],
                             mail |-> [to |-> "lkp-maintainers@os.rwth-aachen.de",
                                       suppress_cc |-> TRUE],
                             git  |-> [root_commit |-> "v6.5.7"]]

NothingStarted == tmp_dir = "none" /\ ~Called("tempdir") /\ calls = <<>> /\ written = {}

ZeroOnlyOnSuccess ==
    (Exited /\ exit_status = 0) =>
        \/ pc = "Done" /\ calls[Len(calls)].cmd.sub = "send-email" /\ calls[Len(calls)].child.success
        \/ pc = "NoOp" /\ CountReturned(0)

C7_BootstrapStatusDistinguished ==
    /\ (FirstRun /\ Exited) =>
          /\ DefaultsPersisted
          /\ exit_status # 0
          /\ exit_status # ErrStatus
          /\ NothingStarted
    /\ ZeroOnlyOnSuccess

\* C7 as amended: a first run ends with status 1, which is also the status of a
\* failed stage; the defaults are persisted unless writing the file fails,
\* and then the run fails in loading the configuration.  The rest as claimed.
C7_BootstrapStatusIsOne ==
    /\ (FirstRun /\ Exited) =>
          /\ exit_status = 1
          /\ exit_status = ErrStatus
          /\ NothingStarted
          /\ \/ pc = "Bootstrapped" /\ DefaultsPersisted
             \/ pc = "Failed" /\ error[1] = "failed to load config" /\ ~DefaultsPersisted
    /\ ZeroOnlyOnSuccess

C7_Witness ==
    /\ FirstRun
    /\ pc = "Bootstrapped"
    /\ DefaultsPersisted
    /\ exit_status = 1

(***************************************************************************)
(* C8: when send-email exits non-zero the run fails and the error holds    *)
(* the standard error of the child, the failed command and the context of  *)
(* the dispatch stage, although the child ran with live standard output.   *)
(***************************************************************************)
SendEmailFailed(i) ==
    /\ calls[i].cmd.sub = "send-email"
    /\ calls[i].child.spawned
    /\ ~calls[i].child.success

C8_SendFailureCarriesStderr ==
    \A i \in 1..Len(calls) :
        SendEmailFailed(i) =>
            /\ pc = "Failed"
            /\ Exited
            /\ exit_status # 0
            /\ error = <<"failed to send patch per mail", "failed to execute: git send-email",
                         calls[i].child.stderr>>
            /\ ~Said("submit successful")

C8_Witness ==
    /\ pc = "Failed"
    /\ \E i \in 1..Len(calls) : SendEmailFailed(i) /\ calls[i].child.stderr = "fatal: unable to send"
    /\ error[3] = "fatal: unable to send"

(***************************************************************************)
(* C9: main calls load_config, tempdir, create_patchs, patch_first_mail    *)
(* and send_patch in this order, each at most once; send-email runs at     *)
(* most once and only after the configuration was loaded, rev-list gave a  *)
(* count above 0, format-patch succeeded and the annotator returned Ok; a  *)
(* failed stage (a count that is no number, a command that exits non-zero) *)
(* ends the run in failure with no later stage and no retry.               *)
(***************************************************************************)
C9_Order ==
    /\ Len(trace) <= Len(StageOrder)
    /\ \A i \in 1..Len(trace) : trace[i] = StageOrder[i]
    /\ (pc = "Done") => trace = StageOrder

C9_MailOnceAfterAllStages ==
    /\ Cardinality({i \in 1..Len(calls) : calls[i].cmd.sub = "send-email"}) <= 1
    /\ Ran("send-email") =>
          /\ Called("load_config")
          /\ Called("tempdir")
          /\ \E n \in 1..(MaxCommits + 1) : CountReturned(n)
          /\ \E i \in 1..Len(calls) :
                calls[i].cmd.sub = "format-patch" /\ calls[i].child.spawned /\ calls[i].child.success
          /\ Called("patch_first_mail")
          /\ \E k \in 1..Len(patch_files) : FirstPatchName(patch_files[k]) /\ patch_files[k] \in written
          /\ calls[Len(calls)].cmd.sub = "send-email"

C9_FailureIsFinal ==
    \* a command that failed is the last command of the run, and the run failed
    /\ \A i \in 1..Len(calls) :
          ~(calls[i].child.spawned /\ calls[i].child.success) =>
              i = Len(calls) /\ pc = "Failed"
    \* so is a count that is not a number
    /\ \A i \in 1..Len(calls) :
          (calls[i].cmd.sub = "rev-list" /\ calls[i].child.spawned /\ calls[i].child.success
              /\ ~parse(trim(calls[i].child.stdout)).ok) =>
              Len(calls) = 1 /\ pc = "Failed"
    /\ (pc = "Failed") => (Exited /\ exit_status # 0 /\ error # <<>> /\ ~Said("submit successful"))

C9_LinearPipeline ==
    [][/\ pc \notin Terminal
       /\ Len(trace') <= Len(trace) + 1
       /\ C9_Order'
       /\ C9_MailOnceAfterAllStages'
       /\ C9_FailureIsFinal']_vars

C9_Witness ==
    /\ pc = "Done"
    /\ trace = <<"load_config", "tempdir", "create_patchs", "patch_first_mail", "send_patch">>
    /\ Len(calls) = 3
    /\ calls[3].cmd.sub = "send-email"
    /\ Len(calls[3].cmd.files) >= 2

(***************************************************************************)
(* C10: a line of the first patch with the prefix "Subject: [PATCH " and   *)
(* no "]" makes the annotator panic at that line; send-email is never run, *)
(* and the file, truncated before the loop, holds the rewritten lines that *)
(* came before that line and nothing else.                                 *)
(***************************************************************************)
Unclosed(line) == HasPrefix(line) /\ \A j \in 1..Len(line) : line[j] # "]"

\* the first line of text that has the prefix and no "]", 0 if there is none
FirstUnclosed(text) ==
    LET ls == TextLines(text)
    IN  IF \E i \in 1..Len(ls) : Unclosed(ls[i])
        THEN CHOOSE i \in 1..Len(ls) : Unclosed(ls[i]) /\ \A j \in 1..(i - 1) : ~Unclosed(ls[j])
        ELSE 0

C10_PanicLeavesTruncatedFile ==
    [][/\ \A f \in DOMAIN fs :
            (pc = "AnnotatingSubject" /\ FirstPatchName(f) /\ FirstUnclosed(fs[f]) > 0) =>
                /\ pc' \in {"Panicking", "Failed"}
                /\ (pc' = "Panicking") =>
                      LET stop == FirstUnclosed(fs[f])
                          old == TextLines(fs[f])
                          new == LFLines(fs'[f])
                      IN  /\ EndsInLF(fs'[f])
                          /\ Len(new) = stop - 1
                          /\ \A i \in 1..Len(new) : Rewritten(old[i], new[i])
                          /\ fs'[f] # fs[f]
                          /\ f \in written'
                          /\ ~Ran("send-email")'
                          /\ ~Exited'
       /\ (pc = "Panicking") =>
              /\ pc' = "Panicked"
              /\ exit_status' \notin {NotExited, 0}
              /\ calls' = calls
       /\ pc # "Panicked"]_vars

C10_Witness ==
    /\ pc = "Panicking"
    /\ \E f \in DOMAIN fs :
          /\ FirstPatchName(f)
          /\ f \in written
          /\ Len(LFLines(fs[f])) = 2
          /\ \E i \in 1..2 : HasPrefix(LFLines(fs[f])[i])

====
